---- MODULE Spec2Model ----
(***************************************************************************)
(* Model of src/app.py (IsomoLink): the grade aggregation (calculate_gpa), *)
(* the leaderboard and rank computed by the dashboard, registration,       *)
(* login, and the AI-tutor chat with its stored history.                   *)
(*                                                                         *)
(* Numbers.  Grade.score and Grade.weight are db.Float columns and Python  *)
(* floats: binary floating point, round-to-nearest-even.  The model keeps  *)
(* that arithmetic and its order of operations, with a significand of Prec *)
(* bits instead of 53 so that every intermediate fits a TLC integer.  A    *)
(* float is a pair <<m, e>> of value m * 2^e, m odd (or <<0, 0>>), so that *)
(* equal values are equal pairs.  Scores and weights are kept in the       *)
(* tables as the decimal that was entered, in tenths (35 is 3.5), and are  *)
(* converted to the nearest float when a row is read.                      *)
(***************************************************************************)
EXTENDS Integers, Sequences, FiniteSets

VARIABLES
    users,      \* table users: the row of id i is users[i]
    grades,     \* table grades, in insertion order
    messages,   \* table chat_message, in id order
    session,    \* session['user_id'] of the browser, 0 when absent
    gpa,        \* the last application of calculate_gpa on its own
    reg,        \* the register requests between their check and commit
    chat,       \* the chat requests between their first commit and the AI
    response    \* what the last request handled returned

vars == <<users, grades, messages, session, gpa, reg, chat, response>>

None == [kind |-> "None"]

(***************************************************************************)
(* Bounds                                                                  *)
(***************************************************************************)
Prec == 13
MaxGrades == 3
NumStudents == 6
MaxTied == 2
NumWorkers == 2
MaxNew == 3

(***************************************************************************)
(* Floating point                                                          *)
(***************************************************************************)
Pow2(n) == 2 ^ n

Abs(x) == IF x < 0 THEN -x ELSE x

Sgn(x) == IF x < 0 THEN -1 ELSE 1

RECURSIVE BitLen(_)
BitLen(n) == IF n = 0 THEN 0 ELSE 1 + BitLen(n \div 2)

RECURSIVE Norm(_, _)
Norm(m, e) ==
    IF m = 0 THEN <<0, 0>>
    ELSE IF m % 2 = 0 THEN Norm(m \div 2, e + 1)
    ELSE <<m, e>>

Zero == <<0, 0>>

\* m * 2^e rounded to Prec significant bits, ties to even; sticky says that
\* the exact value lies strictly above |m| * 2^e (bits already dropped).
RoundSig(m, e, sticky) ==
    LET a  == Abs(m)
        sh == BitLen(a) - Prec
    IN  IF sh <= 0 THEN Norm(m, e)
        ELSE LET q    == a \div Pow2(sh)
                 r    == a % Pow2(sh)
                 half == Pow2(sh - 1)
                 up   == r > half \/ (r = half /\ (sticky \/ q % 2 = 1))
             IN  Norm(Sgn(m) * (IF up THEN q + 1 ELSE q), e + sh)

\* a * b
Fmul(a, b) == RoundSig(a[1] * b[1], a[2] + b[2], FALSE)

\* the exact sum of a and b, as an unrounded pair
ExactSum(a, b) ==
    LET e == IF a[2] < b[2] THEN a[2] ELSE b[2]
    IN  <<a[1] * Pow2(a[2] - e) + b[1] * Pow2(b[2] - e), e>>

\* a + b
Fadd(a, b) == LET s == ExactSum(a, b) IN RoundSig(s[1], s[2], FALSE)

\* a / b, b # 0
Fdiv(a, b) ==
    IF a[1] = 0 THEN Zero
    ELSE LET sa == Prec - BitLen(Abs(a[1]))
             sb == Prec - BitLen(Abs(b[1]))
             ma == Abs(a[1]) * Pow2(sa)
             mb == Abs(b[1]) * Pow2(sb)
             n  == ma * Pow2(Prec + 1)
             q  == n \div mb
             sg == IF (a[1] < 0) = (b[1] < 0) THEN 1 ELSE -1
         IN  RoundSig(sg * q, (a[2] - sa) - (b[2] - sb) - (Prec + 1),
                      n % mb # 0)

\* a < b
Fless(a, b) == LET s == ExactSum(a, <<-b[1], b[2]>>) IN s[1] < 0

\* the float stored for each decimal t / 10 that a table of the model holds
StoredFloat == [t \in -10..900 |-> Fdiv(<<t, 0>>, <<10, 0>>)]

FromTenths(t) == StoredFloat[t]

FromInt(n) == Norm(n, 0)

\* round(x, 1): the multiple of 0.1 nearest to the exact value of x, ties to
\* even; the result is given as its number of tenths (808 is 80.8).
Round1(x) ==
    LET a == 10 * Abs(x[1])
    IN  IF x[2] >= 0 THEN Sgn(x[1]) * a * Pow2(x[2])
        ELSE LET d  == Pow2(-x[2])
                 k  == a \div d
                 r  == a % d
                 up == 2 * r > d \/ (2 * r = d /\ k % 2 = 1)
             IN  Sgn(x[1]) * (IF up THEN k + 1 ELSE k)

\* sum(...) over a sequence of floats: starts from 0 and adds left to right
RECURSIVE Fsum(_)
Fsum(s) ==
    IF s = <<>> THEN Zero
    ELSE Fadd(Fsum(SubSeq(s, 1, Len(s) - 1)), s[Len(s)])

(***************************************************************************)
(* calculate_gpa                                                           *)
(***************************************************************************)
Value(k) == [kind |-> "float", tenths |-> k]

ZeroDivisionError == [kind |-> "ZeroDivisionError"]

\* the rows of table t that satisfy filter_by(student_id = user_id), in
\* table order
RowsOf(t, user_id) == SelectSeq(t, LAMBDA g : g.student_id = user_id)

Score(g) == FromTenths(g.score)

Weight(g) == FromTenths(g.weight)

\* the weights left out of the numerator
total_score_unweighted(rows) ==
    Fsum([i \in 1..Len(rows) |-> Score(rows[i])])

total_score(rows) ==
    Fsum([i \in 1..Len(rows) |-> Fmul(Score(rows[i]), Weight(rows[i]))])

\* only the weight of the last row read, instead of the sum
total_weight_last(rows) ==
    IF rows = <<>> THEN Zero ELSE Weight(rows[Len(rows)])

total_weight(rows) == Fsum([i \in 1..Len(rows) |-> Weight(rows[i])])

\* the test of line 84 left out: the division raises
calculate_gpa_unguarded(rows) ==
    IF rows = <<>> THEN Value(0)
    ELSE IF total_weight(rows) = Zero THEN ZeroDivisionError
    ELSE Value(Round1(Fdiv(total_score(rows), total_weight(rows))))

\* rows: the student's grades in the order the query returned them
calculate_gpa(rows) ==
    IF rows = <<>> THEN Value(0)
    ELSE IF total_weight(rows) = Zero THEN Value(0)
    ELSE Value(Round1(Fdiv(total_score(rows), total_weight(rows))))

(***************************************************************************)
(* Tables                                                                  *)
(***************************************************************************)
\* Grade.query...all() has no ORDER BY: the rows come back in any order.
RECURSIVE Orderings(_)
Orderings(s) ==
    IF s = <<>> THEN {<<>>}
    ELSE UNION {{<<s[i]>> \o p :
                    p \in Orderings([j \in 1..(Len(s) - 1) |->
                                        IF j < i THEN s[j] ELSE s[j + 1]])} :
                i \in 1..Len(s)}

Grade(sid, sc, w) == [student_id |-> sid, score |-> sc, weight |-> w]

User(name, mail, pw, r) ==
    [username |-> name, email |-> mail, password_hash |-> <<"hash", pw>>,
     role |-> r]

(***************************************************************************)
(* The grade calculator on its own: every table of one student's grades    *)
(***************************************************************************)
Scores == {20, 35, 40}

Weights == {-10, 0, 1, 10}

ExampleGrades == <<Grade(1, 850, 10), Grade(1, 720, 10), Grade(1, 900, 5)>>

RECURSIVE SeqsUpTo(_, _)
SeqsUpTo(S, n) ==
    IF n = 0 THEN {<<>>}
    ELSE LET shorter == SeqsUpTo(S, n - 1)
         IN  shorter \cup {Append(s, x) : s \in shorter, x \in S}

\* The rows are read in every order (Orderings), so a table stands for all
\* the tables with the same rows: one table is taken for each, its rows in
\* the order of (score, weight).
InOrder(t) ==
    \A i \in 1..(Len(t) - 1) :
        \/ t[i].score < t[i + 1].score
        \/ t[i].score = t[i + 1].score /\ t[i].weight <= t[i + 1].weight

GradeTables ==
    {t \in SeqsUpTo({Grade(1, sc, w) : sc \in Scores, w \in Weights},
                    MaxGrades) : InOrder(t)}
        \cup {ExampleGrades}

InitGpa ==
    /\ users = <<User(<<"a">>, <<"x">>, "p", "student")>>
    /\ grades \in GradeTables
    /\ messages = <<>>
    /\ session = 0
    /\ gpa = None
    /\ reg = <<>>
    /\ chat = <<>>
    /\ response = None

GpaRequest ==
    /\ \E rows \in Orderings(RowsOf(grades, 1)) :
          gpa' = [rows |-> rows, result |-> calculate_gpa(rows)]
    /\ UNCHANGED <<users, grades, messages, session, reg, chat, response>>

NextGpa == GpaRequest

SpecGpa == InitGpa /\ [][NextGpa]_vars

\* The exact (rational) weighted sum and weight sum of the decimals entered,
\* in hundredths and in tenths: the quotient SumSW / SumW is the exact
\* weighted average in tenths.
RECURSIVE SumSW(_)
SumSW(rows) ==
    IF rows = <<>> THEN 0
    ELSE SumSW(Tail(rows)) + Head(rows).score * Head(rows).weight

RECURSIVE SumW(_)
SumW(rows) == IF rows = <<>> THEN 0 ELSE SumW(Tail(rows)) + Head(rows).weight

\* no addition of the left-to-right sum of s rounds
RECURSIVE AddsExact(_)
AddsExact(s) ==
    \/ s = <<>>
    \/ LET front == SubSeq(s, 1, Len(s) - 1)
           x     == ExactSum(Fsum(front), s[Len(s)])
       IN  AddsExact(front) /\ Norm(x[1], x[2]) = Fadd(Fsum(front), s[Len(s)])

\* neither of the two sums of calculate_gpa rounds on these rows
SumsExact(rows) ==
    /\ AddsExact([i \in 1..Len(rows) |-> Fmul(Score(rows[i]), Weight(rows[i]))])
    /\ AddsExact([i \in 1..Len(rows) |-> Weight(rows[i])])

\* C1: calculate_gpa never raises a division error, and returns 0.0 whenever
\* the student has no grades or the sum of the weights, as the code
\* accumulates it, is exactly 0 (all-zero weights, weights that cancel).
C1_ZeroWeightGivesZero ==
    gpa # None =>
        /\ gpa.result.kind = "float"
        /\ (gpa.rows = <<>> \/ Fsum([i \in 1..Len(gpa.rows) |->
                                        Weight(gpa.rows[i])]) = Zero)
              => gpa.result = Value(0)

\* C1 witness: two weights that are not zero cancel and the result is 0.0
C1_Witness ==
    /\ gpa # None
    /\ Len(gpa.rows) = 2
    /\ gpa.rows[1].weight = 10
    /\ gpa.rows[2].weight = -10
    /\ gpa.result = Value(0)

\* C2: on grades whose weights do not sum to 0 the result is the exact
\* weighted average sum(score * weight) / sum(weight) rounded to one decimal
\* (a nearest multiple of 0.1), and the grades (85, 1.0), (72, 1.0),
\* (90, 0.5) give 80.8.
C2_WeightedAverageRounded ==
    gpa # None /\ gpa.rows # <<>> /\ SumW(gpa.rows) # 0 =>
        /\ gpa.result.kind = "float"
        /\ 2 * Abs(SumSW(gpa.rows) - gpa.result.tenths * SumW(gpa.rows))
              <= Abs(SumW(gpa.rows))
        /\ grades = ExampleGrades => gpa.result = Value(808)

\* C2 witness: the example has been computed, in another order than the
\* table's
C2_Witness ==
    /\ gpa # None
    /\ grades = ExampleGrades
    /\ gpa.rows # grades
    /\ gpa.result = Value(808)

\* C3 as claimed: whatever order the rows are read in, the result is the
\* result on the table's order.
C3_Original ==
    gpa # None => gpa.result = calculate_gpa(RowsOf(grades, 1))

\* C3 as amended: two orders give the same result when in neither of them an
\* addition of the two sums rounds.
C3_OrderInvariantWhenExact ==
    gpa # None /\ SumsExact(gpa.rows) /\ SumsExact(RowsOf(grades, 1)) =>
        gpa.result = calculate_gpa(RowsOf(grades, 1))

\* C3 witness: three grades with different weighted scores, one weight not a
\* binary fraction, read in another order, no addition rounds
C3_Witness ==
    /\ gpa # None
    /\ Len(gpa.rows) = 3
    /\ gpa.rows # RowsOf(grades, 1)
    /\ \E i \in 1..3 : gpa.rows[i].weight = 1
    /\ \E i, j \in 1..3 : gpa.rows[i].score # gpa.rows[j].score
    /\ SumsExact(gpa.rows) /\ SumsExact(RowsOf(grades, 1))
    /\ gpa.result.tenths > 0

(***************************************************************************)
(* Strings, as sequences of characters                                     *)
(***************************************************************************)
LowerChar(c) ==
    CASE c = "A" -> "a"
      [] c = "B" -> "b"
      [] c = "X" -> "x"
      [] c = "Y" -> "y"
      [] OTHER -> c

Lower(s) == [i \in 1..Len(s) |-> LowerChar(s[i])]

RECURSIVE Strip(_)
Strip(s) ==
    IF s = <<>> THEN s
    ELSE IF Head(s) = " " THEN Strip(Tail(s))
    ELSE IF s[Len(s)] = " " THEN Strip(SubSeq(s, 1, Len(s) - 1))
    ELSE s

\* request.form[...].lower().strip()
Clean(s) == Strip(Lower(s))

(***************************************************************************)
(* login, logout                                                           *)
(***************************************************************************)
Redirect(to) == [kind |-> "redirect", to |-> to]

Rendered(page) == [kind |-> "page", page |-> page]

\* User.query.filter_by(username=...).first(): the id of the row, 0 if none
FirstByUsername(u, name) ==
    LET ids == {i \in 1..Len(u) : u[i].username = name}
    IN  IF ids = {} THEN 0 ELSE CHOOSE i \in ids : \A j \in ids : i <= j

check_password(user, password) == user.password_hash = <<"hash", password>>

login(form_username, password) ==
    LET id == FirstByUsername(users, Clean(form_username))
    IN  /\ IF id # 0 /\ check_password(users[id], password)
           THEN session' = id /\ response' = Redirect("dashboard")
           ELSE session' = session /\ response' = Rendered("auth/login.html")
        /\ UNCHANGED <<users, grades, messages, gpa, reg, chat>>

logout ==
    /\ session' = 0
    /\ response' = Redirect("login")
    /\ UNCHANGED <<users, grades, messages, gpa, reg, chat>>

(***************************************************************************)
(* The leaderboard query and the dashboard                                 *)
(***************************************************************************)
DashboardLimit == 5

PageLimit == 50

Min(a, b) == IF a < b THEN a ELSE b

\* the mean weighted by Grade.weight, as calculate_gpa takes it
avg_score_weighted(g, id) ==
    LET rows == RowsOf(g, id)
    IN  Fdiv(total_score(rows), total_weight(rows))

\* func.avg(Grade.score) over the grades of one user
avg_score(g, id) ==
    LET rows == RowsOf(g, id)
    IN  Fdiv(Fsum([i \in 1..Len(rows) |-> Score(rows[i])]),
             FromInt(Len(rows)))

\* the groups of User join Grade where role = 'student', one row each
Groups(u, g) ==
    {[username |-> u[id].username, id |-> id, avg_score |-> avg_score(g, id)] :
        id \in {i \in 1..Len(u) : u[i].role = "student" /\ RowsOf(g, i) # <<>>}}

\* ORDER BY avg desc: every arrangement of the rows S in which no row comes
\* before a row of greater average; rows of equal average come in any order
RECURSIVE OrderByAvgDesc(_)
OrderByAvgDesc(S) ==
    IF S = {} THEN {<<>>}
    ELSE UNION {{<<x>> \o r : r \in OrderByAvgDesc(S \ {x})} :
                x \in {y \in S : \A z \in S :
                                    ~Fless(y.avg_score, z.avg_score)}}

\* the results that one execution of leaderboard_query.all() can return
leaderboard_query(u, g) == OrderByAvgDesc(Groups(u, g))

\* .limit(n) that lets one row more through
Limit_one_more(r, n) == SubSeq(r, 1, Min(n + 1, Len(r)))

\* .limit(n)
Limit(r, n) == SubSeq(r, 1, Min(n, Len(r)))

Unranked == [kind |-> "--"]

Rank(n) == [kind |-> "int", n |-> n]

\* the index of the loop, without the + 1
my_rank_index(all_ranked_students, id) ==
    LET at == {i \in 1..Len(all_ranked_students) :
                    all_ranked_students[i].id = id}
    IN  IF at = {} THEN Unranked
        ELSE Rank((CHOOSE i \in at : \A j \in at : i <= j) - 1)

\* the loop of lines 176-185 over the full list
my_rank(all_ranked_students, id) ==
    LET at == {i \in 1..Len(all_ranked_students) :
                    all_ranked_students[i].id = id}
    IN  IF at = {} THEN Unranked
        ELSE Rank(CHOOSE i \in at : \A j \in at : i <= j)

dashboard ==
    /\ IF session = 0 THEN response' = Redirect("login")
       ELSE IF users[session].role = "student" THEN
           LET mine   == Orderings(RowsOf(grades, session))
               ranked == leaderboard_query(users, grades)
           IN  \E g \in {calculate_gpa(rows) : rows \in mine},
                  my_grades \in mine,
                  leaderboard \in {Limit(top, DashboardLimit) : top \in ranked},
                  rank \in {my_rank(all_ranked_students, session) :
                                all_ranked_students \in ranked} :
                    response' =
                        [kind |-> "dashboard", user |-> session,
                         role |-> users[session].role,
                         gpa |-> g,
                         grades |-> my_grades,
                         leaderboard |-> leaderboard,
                         my_rank |-> rank]
       ELSE IF users[session].role = "teacher" THEN
           response' =
               [kind |-> "dashboard", user |-> session,
                role |-> users[session].role,
                total_students |->
                    Cardinality({i \in 1..Len(users) :
                                    users[i].role = "student"})]
       ELSE response' = [kind |-> "dashboard", user |-> session,
                         role |-> users[session].role]
    /\ UNCHANGED <<users, grades, messages, session, gpa, reg, chat>>

leaderboard_page ==
    /\ IF session = 0 THEN response' = Redirect("login")
       ELSE \E leaderboard_data \in
                    {Limit(top, PageLimit) :
                        top \in leaderboard_query(users, grades)} :
                response' =
                    [kind |-> "leaderboard",
                     leaderboard |->
                        [i \in 1..Len(leaderboard_data) |->
                            [username |-> leaderboard_data[i].username,
                             avg_score |-> leaderboard_data[i].avg_score]]]
    /\ UNCHANGED <<users, grades, messages, session, gpa, reg, chat>>

(***************************************************************************)
(* The dashboard over every table of grades of NumStudents students and a  *)
(* teacher.  The query treats the students alike (it orders by average     *)
(* only), so the tables are taken up to a renaming of the students: the    *)
(* students are numbered by the grades they have.                          *)
(***************************************************************************)
NameOf(i) == [j \in 1..i |-> "a"]

MailOf(i) == [j \in 1..i |-> "x"]

BoardUsers ==
    [i \in 1..(NumStudents + 1) |->
        User(NameOf(i), MailOf(i), "p",
             IF i <= NumStudents THEN "student" ELSE "teacher")]

\* the grades one user can have: none, one, or two of different weight
BoardGrades(id, shape) ==
    CASE shape = 0 -> <<>>
      [] shape = 1 -> <<Grade(id, 600, 10)>>
      [] shape = 2 -> <<Grade(id, 900, 10)>>
      [] OTHER     -> <<Grade(id, 600, 10), Grade(id, 900, 5)>>

RECURSIVE BoardTable(_, _)
BoardTable(f, n) ==
    IF n = 0 THEN <<>> ELSE BoardTable(f, n - 1) \o BoardGrades(n, f[n])

\* no more than MaxTied ranked students have the same average
FewTies(u, g) ==
    \A x \in Groups(u, g) :
        Cardinality({y \in Groups(u, g) : y.avg_score = x.avg_score})
            <= MaxTied

InitBoard ==
    /\ users = BoardUsers
    /\ \E f \in [1..(NumStudents + 1) -> 0..3] :
          /\ \A i \in 1..(NumStudents - 1) : f[i] <= f[i + 1]
          /\ grades = BoardTable(f, NumStudents + 1)
    /\ FewTies(users, grades)
    /\ messages = <<>>
    /\ session = 0
    /\ gpa = None
    /\ reg = <<>>
    /\ chat = <<>>
    /\ response = None

NextBoard ==
    \/ \E i \in 1..(NumStudents + 1), pw \in {"p", "q"} :
          login(<<" ">> \o [j \in 1..i |-> "A"], pw)
    \/ logout
    \/ dashboard
    \/ leaderboard_page

SpecBoard == InitBoard /\ [][NextBoard]_vars

StudentDashboard ==
    /\ response.kind = "dashboard"
    /\ response.role = "student"

SortedDesc(l) ==
    \A i \in 1..(Len(l) - 1) : ~Fless(l[i].avg_score, l[i + 1].avg_score)

\* C4: the leaderboard of the dashboard has at most 5 entries, that of the
\* leaderboard page at most 50, and the query cut at any limit has at most
\* that many; each is sorted by non-increasing average.
C4_LeaderboardBoundedSorted ==
    /\ StudentDashboard =>
          /\ Len(response.leaderboard) <= DashboardLimit
          /\ SortedDesc(response.leaderboard)
    /\ response.kind = "leaderboard" =>
          /\ Len(response.leaderboard) <= PageLimit
          /\ SortedDesc(response.leaderboard)
    /\ \A top \in leaderboard_query(users, grades) :
          \A n \in 0..(NumStudents + 1) :
              /\ Len(Limit(top, n)) <= n
              /\ SortedDesc(Limit(top, n))

\* C4 witness: more students are ranked than the dashboard shows, and two of
\* those shown have the same average
C4_Witness ==
    /\ StudentDashboard
    /\ Cardinality(Groups(users, grades)) > DashboardLimit
    /\ Len(response.leaderboard) = DashboardLimit
    /\ \E i \in 1..(DashboardLimit - 1) :
          response.leaderboard[i].avg_score
              = response.leaderboard[i + 1].avg_score

\* the students ranked strictly above, and not below, the user id
Above(id) ==
    {x \in Groups(users, grades) : Fless(avg_score(grades, id), x.avg_score)}

NotBelow(id) ==
    {x \in Groups(users, grades) : ~Fless(x.avg_score, avg_score(grades, id))}

\* C5: for a student with a grade my_rank is a position of the student in
\* the full ranked list, an integer from 1 to the length of the list; it is
\* "--" exactly when the student is not in the list, as is every student
\* without grades.
C5_RankIsPosition ==
    StudentDashboard =>
        LET id     == response.user
            ranked == {x.id : x \in Groups(users, grades)}
        IN  /\ RowsOf(grades, id) # <<>> =>
                  /\ response.my_rank.kind = "int"
                  /\ response.my_rank.n \in 1..Cardinality(ranked)
                  /\ response.my_rank.n > Cardinality(Above(id))
                  /\ response.my_rank.n <= Cardinality(NotBelow(id))
            /\ response.my_rank = Unranked <=> id \notin ranked
            /\ RowsOf(grades, id) = <<>> => response.my_rank = Unranked

\* C5 witness: the student is the last of a list longer than the widget
C5_Witness ==
    /\ StudentDashboard
    /\ RowsOf(grades, response.user) # <<>>
    /\ Cardinality(Groups(users, grades)) > DashboardLimit
    /\ response.my_rank = Rank(Cardinality(Groups(users, grades)))

\* the table g with the weight of row i set to w
WithWeight(g, i, w) == [g EXCEPT ![i].weight = w]

AltWeights == {5, 20}

\* the exact mean of the scores of the user id, as a float
MeanScore(id) ==
    LET rows == RowsOf(grades, id)
    IN  Fdiv(<<SumSW([i \in 1..Len(rows) |-> [rows[i] EXCEPT !.weight = 1]]),
               0>>,
             <<10 * Len(rows), 0>>)

\* C6: the average of a leaderboard entry is the plain mean of the scores of
\* that student, and a change of the weight of any grade leaves the results
\* of the ranking query, hence the order and every rank, as they are.
C6_LeaderboardIgnoresWeight ==
    /\ StudentDashboard \/ response.kind = "leaderboard" =>
          \A i \in 1..Len(response.leaderboard) :
              \E id \in 1..Len(users) :
                  /\ users[id].username = response.leaderboard[i].username
                  /\ response.leaderboard[i].avg_score = MeanScore(id)
    /\ LET ranked == leaderboard_query(users, grades)
       IN  \A i \in 1..Len(grades), w \in AltWeights :
              leaderboard_query(users, WithWeight(grades, i, w)) = ranked

\* C6 witness: the student shown has a grade whose weight changes the GPA,
\* and is on the leaderboard
C6_Witness ==
    /\ StudentDashboard
    /\ \E i \in 1..Len(response.leaderboard) :
          response.leaderboard[i].id = response.user
    /\ \E i \in 1..Len(grades), w \in AltWeights :
          /\ grades[i].student_id = response.user
          /\ calculate_gpa(RowsOf(WithWeight(grades, i, w), response.user))
                # response.gpa

\* C7: the leaderboard shown is the head of the full list that gave the rank:
\* a student of rank r <= 5 is at position r of the leaderboard, and a
\* student at position p of the leaderboard has rank p.
C7_Original ==
    StudentDashboard =>
        /\ (response.my_rank.kind = "int"
                /\ response.my_rank.n <= DashboardLimit) =>
              /\ response.my_rank.n <= Len(response.leaderboard)
              /\ response.leaderboard[response.my_rank.n].id = response.user
        /\ \A p \in 1..Len(response.leaderboard) :
              response.leaderboard[p].id = response.user =>
                  response.my_rank = Rank(p)

(***************************************************************************)
(* register: NumWorkers requests are handled at once, each first looks for *)
(* an existing user and later commits its own                              *)
(***************************************************************************)
Failed(exception) == [kind |-> "error", exception |-> exception]

\* the filter of line 106 finds a row
Exists(u, username, email) ==
    \E i \in 1..Len(u) : u[i].username = username \/ u[i].email = email

\* only the username column declared unique
UniqueViolation_username_only(u, new_user) ==
    \E i \in 1..Len(u) : u[i].username = new_user.username

\* unique=True on users.username and on users.email: the INSERT is refused
UniqueViolation(u, new_user) ==
    \E i \in 1..Len(u) :
        u[i].username = new_user.username \/ u[i].email = new_user.email

register_get ==
    /\ response' = Rendered("auth/register.html")
    /\ UNCHANGED <<users, grades, messages, session, gpa, reg, chat>>

\* lines 98-111: clean the form, look for the user, build the new one
register_check(p, form) ==
    /\ reg[p] = None
    /\ LET username == Clean(form.username)
           email    == Clean(form.email)
       IN  IF Exists(users, username, email)
           THEN /\ response' = Redirect("register")
                /\ reg' = reg
           ELSE /\ reg' = [reg EXCEPT ![p] =
                            User(username, email, form.password, form.role)]
                /\ response' = response
    /\ UNCHANGED <<users, grades, messages, session, gpa, chat>>

\* lines 114-118: add, commit, redirect
register_commit(p) ==
    /\ reg[p] # None
    /\ IF UniqueViolation(users, reg[p])
       THEN /\ users' = users
            /\ response' = Failed("IntegrityError")
       ELSE /\ users' = Append(users, reg[p])
            /\ response' = Redirect("login")
    /\ reg' = [reg EXCEPT ![p] = None]
    /\ UNCHANGED <<grades, messages, session, gpa, chat>>

Forms ==
    [username : {<<"A">>, <<"a", " ">>, <<"b">>},
     email    : {<<"X">>, <<" ", "x">>, <<"y">>},
     password : {"p"},
     role     : {"student", "teacher"}]

InitReg ==
    /\ users = <<>>
    /\ grades = <<>>
    /\ messages = <<>>
    /\ session = 0
    /\ gpa = None
    /\ reg = [p \in 1..NumWorkers |-> None]
    /\ chat = <<>>
    /\ response = None

NextReg ==
    \/ register_get
    \/ \E p \in 1..NumWorkers, form \in Forms : register_check(p, form)
    \/ \E p \in 1..NumWorkers : register_commit(p)
    \/ \E form \in Forms : login(form.username, form.password)
    \/ logout

SpecReg == InitReg /\ [][NextReg]_vars

UsersUnique ==
    \A i, j \in 1..Len(users) :
        i # j => /\ users[i].username # users[j].username
                 /\ users[i].email # users[j].email

\* C9: no two stored users share a username or an email, whatever the
\* interleaving of the requests, and a request whose cleaned username or
\* email is taken when it commits or when it checks leaves the table as it
\* is: the table changes only by the commit of a user whose username and
\* email are both new.
C9_NoDuplicateUsers ==
    [][/\ UsersUnique'
       /\ users' # users =>
            \E p \in 1..NumWorkers :
                /\ reg[p] # None
                /\ ~Exists(users, reg[p].username, reg[p].email)
                /\ users' = Append(users, reg[p])]_vars

\* C9 witness: two requests for the same username passed the check
\* together, one has committed and the other was refused
C9_Witness ==
    /\ Len(users) = 1
    /\ response = Failed("IntegrityError")
    /\ \A p \in 1..NumWorkers : reg[p] = None

(***************************************************************************)
(* The tutor chat and its history                                          *)
(***************************************************************************)
ContextLimit == 10

HistoryLimit == 20

\* data.get('message') when the request body has no message
NoMessage == "None"

Texts == {"hi", "**b**"}

\* markdown.markdown(text)
markdown(text) ==
    CASE text = "hi"    -> "<p>hi</p>"
      [] text = "**b**" -> "<p><strong>b</strong></p>"
      [] OTHER          -> "<p>" \o text \o "</p>"

Message(id, user_id, role, content) ==
    [id |-> id, user_id |-> user_id, role |-> role, content |-> content]

\* what flask's jsonify would return
Json(route, status, body) ==
    [kind |-> "json", route |-> route, status |-> status, body |-> body]

\* jsonify is not among the names imported from flask at line 3, nor defined
\* in the module: every call of it raises NameError, whatever it is given;
\* locals is what the handler had computed by then.
jsonify(route, status, body, locals) ==
    [kind |-> "NameError", route |-> route, name |-> "jsonify",
     locals |-> locals]

Fallback == "I'm having trouble connecting to the brain right now."

\* ChatMessage.query.filter_by(user_id=...), in id order
MessagesOf(user_id) == SelectSeq(messages, LAMBDA m : m.user_id = user_id)

\* order_by(id.desc()).limit(n).all() followed by reverse()
LastOf(rows, n) == SubSeq(rows, Len(rows) - Min(n, Len(rows)) + 1, Len(rows))

\* order_by(id.asc()).limit(n).all()
FirstOf(rows, n) == SubSeq(rows, 1, Min(n, Len(rows)))

Payload(rows) ==
    [i \in 1..Len(rows) |->
        [role |-> rows[i].role, content |-> markdown(rows[i].content)]]

Raised == [kind |-> "raised"]

Answer(text) == [kind |-> "text", text |-> text]

\* lines 303-331: the check of the session, the user's message saved and
\* committed, the recent history read for the prompt
chat_receive(user_text) ==
    /\ chat = None
    /\ IF session = 0
       THEN /\ response' =
                  jsonify("/api/chat", 401, [error |-> "Unauthorized"], None)
            /\ UNCHANGED <<messages, chat>>
       ELSE IF user_text = NoMessage
       THEN \* content is nullable=False: the commit is refused
            /\ response' = Failed("IntegrityError")
            /\ UNCHANGED <<messages, chat>>
       ELSE /\ messages' = Append(messages,
                Message(Len(messages) + 1, session, "user", user_text))
            /\ chat' = [stage |-> "sending", user_id |-> session,
                        user_text |-> user_text,
                        recent_history |->
                            LastOf(SelectSeq(messages',
                                        LAMBDA m : m.user_id = session),
                                   ContextLimit),
                        ai |-> None]
            /\ response' = response
    /\ UNCHANGED <<users, grades, session, gpa, reg>>

\* lines 338-342: the call of the AI answers or raises
chat_send(outcome) ==
    /\ chat # None
    /\ chat.stage = "sending"
    /\ chat' = [chat EXCEPT !.stage = "answered", !.ai = outcome]
    /\ UNCHANGED <<users, grades, messages, session, gpa, reg, response>>

\* lines 344-355: the answer saved and committed, and the response
chat_respond ==
    /\ chat # None
    /\ chat.stage = "answered"
    /\ IF chat.ai = Raised
       THEN /\ messages' = messages
            /\ response' = jsonify("/api/chat", 200, [response |-> Fallback],
                                   None)
       ELSE /\ messages' = Append(messages,
                Message(Len(messages) + 1, chat.user_id, "model",
                        chat.ai.text))
            \* jsonify raises inside the try; the handler of the exception
            \* calls it again
            /\ response' = jsonify("/api/chat", 200, [response |-> Fallback],
                                   [html_response |-> markdown(chat.ai.text)])
    /\ chat' = None
    /\ UNCHANGED <<users, grades, session, gpa, reg>>

get_chat_history ==
    /\ IF session = 0
       THEN response' = jsonify("/api/chat/history", 200, <<>>, None)
       ELSE LET history == FirstOf(MessagesOf(session), HistoryLimit)
            IN  response' = jsonify("/api/chat/history", 200,
                                    Payload(history), [history |-> history])
    /\ UNCHANGED <<users, grades, messages, session, gpa, reg, chat>>

ChatUsers ==
    <<User(<<"a">>, <<"x">>, "p", "student"),
      User(<<"b">>, <<"y">>, "p", "student")>>

\* a conversation of n messages of the user id, every one answered
Conversation(user_id, n) ==
    [i \in 1..n |->
        Message(i, user_id, IF i % 2 = 1 THEN "user" ELSE "model", "hi")]

\* the table is empty or holds a conversation that fills the history; at
\* most MaxNew messages are added to it
InitChat ==
    /\ users = ChatUsers
    /\ grades = <<>>
    /\ messages \in {<<>>, Conversation(1, HistoryLimit)}
    /\ session = 0
    /\ gpa = None
    /\ reg = <<>>
    /\ chat = None
    /\ response = None

Room ==
    IF Len(messages) < HistoryLimit
    THEN Len(messages) < MaxNew
    ELSE Len(messages) < HistoryLimit + MaxNew

NextChat ==
    \/ \E i \in 1..Len(ChatUsers) : login(ChatUsers[i].username, "p")
    \/ logout
    \/ \E user_text \in Texts \cup {NoMessage} :
          Room /\ chat_receive(user_text)
    \/ \E outcome \in {Raised} \cup {Answer(t) : t \in Texts} :
          chat_send(outcome)
    \/ chat_respond
    \/ get_chat_history

SpecChat == InitChat /\ [][NextChat]_vars

\* C8: what get_chat_history selects for its response is the 20 most recent
\* messages of the logged-in user (all of them when there are fewer), in
\* chronological order.
C8_Original ==
    [][(/\ response' # response
        /\ response'.kind \in {"json", "NameError"}
        /\ response'.route = "/api/chat/history"
        /\ session # 0)
            => response'.locals.history
                  = LastOf(MessagesOf(session), HistoryLimit)]_vars

CountOf(user_id, role) ==
    Len(SelectSeq(messages,
                  LAMBDA m : m.user_id = user_id /\ m.role = role))

\* C10: the user's message is committed before the AI is called; when the
\* AI call raises the handler returns the fallback response, the user's
\* message stays and no 'model' message is added; when it answers the
\* answer is stored; no user ever has more 'model' than 'user' messages; a
\* request without a session stores nothing.
C10_Original ==
    [][/\ (chat = None /\ chat' # None) =>
              messages' = Append(messages,
                  Message(Len(messages) + 1, session, "user",
                          chat'.user_text))
       /\ (chat # None /\ chat' = None) =>
              IF chat.ai = Raised
              THEN /\ response' = Json("/api/chat", 200,
                                       [response |-> Fallback])
                   /\ messages' = messages
              ELSE messages' = Append(messages,
                       Message(Len(messages) + 1, chat.user_id, "model",
                               chat.ai.text))
       /\ \A id \in 1..Len(users) :
              CountOf(id, "model")' <= CountOf(id, "user")'
       /\ (chat = None /\ session = 0) => messages' = messages]_vars

====
